---- MODULE Spec2Model ----
(***************************************************************************)
(* plasmapy/utils/roman/roman.py: toRoman (integer -> Roman numeral) and   *)
(* fromRoman (Roman numeral -> integer), with the digit table and the      *)
(* validity pattern they share.                                            *)
(*                                                                         *)
(* A Python str is modelled as a sequence of one-character strings, a      *)
(* Python index as a 0-based position.  Each call is a frame: its program  *)
(* counter ("idle", "call", "for", "returned", "raised"), its argument and *)
(* its locals.  Every argument drawn here is an int (toRoman) or a str     *)
(* (fromRoman), so the isinstance checks of lines 106 and 153 pass.        *)
(***************************************************************************)
EXTENDS Integers, Sequences, FiniteSets, TLC

VARIABLES
    tr_pc,      \* toRoman: position of the call
    tr_arg,     \* toRoman: the argument as passed (n before the loop changes it)
    n,          \* toRoman: the local n, decremented by the loop
    tr_result,  \* toRoman: the local result
    tr_k,       \* toRoman: 1-based position of the for loop in the table
    tr_log,     \* toRoman: table positions of the numerals appended so far (history)
    fr_pc,      \* fromRoman: position of the call
    s,          \* fromRoman: the argument s
    fr_result,  \* fromRoman: the local result
    index,      \* fromRoman: the local index
    fr_k,       \* fromRoman: 1-based position of the for loop in the table
    exc         \* the exception propagating to the caller, or "none"

vars == <<tr_pc, tr_arg, n, tr_result, tr_k, tr_log, fr_pc, s, fr_result, index, fr_k, exc>>

trVars == <<tr_pc, tr_arg, n, tr_result, tr_k, tr_log>>
frVars == <<fr_pc, s, fr_result, index, fr_k>>

----------------------------------------------------------------------------
(* Bounds of the inputs *)

Below == 3          \* integers down to -Below are passed to toRoman
Above == 3          \* integers up to 5000 + Above are passed to toRoman
MaxFreeLen == 3     \* every string over Alphabet up to this length is passed to fromRoman
MaxThousands == 5   \* structured strings start with up to this many M
MaxRun == 4         \* structured strings repeat a unit symbol up to this many times

----------------------------------------------------------------------------
(* Strings *)

NumeralChars == {"M", "D", "C", "L", "X", "V", "I"}
Alphabet == NumeralChars \cup {"m", "i", "A", "B", "\n"}

RECURSIVE Rep(_, _)
Rep(c, k) == IF k <= 0 THEN <<>> ELSE <<c>> \o Rep(c, k - 1)

Min(a, b) == IF a <= b THEN a ELSE b

\* Python's s[a:b] for 0 <= a <= b: the slice is cut at the end of s.
Slice(str, a, b) == SubSeq(str, a + 1, Min(b, Len(str)))

RECURSIVE StringsUpTo(_, _)
StringsUpTo(chars, len) ==
    IF len = 0 THEN {<<>>}
    ELSE LET shorter == StringsUpTo(chars, len - 1)
         IN  shorter \cup {Append(w, c) : w \in shorter, c \in chars}

\* What a string may hold at one decimal position: runs of the unit symbol
\* with or without the five symbol before them, and the two-symbol forms.
GroupCandidates(one, five, ten) ==
    {f \o Rep(one, r) : f \in {<<>>, <<five>>}, r \in 0..MaxRun}
        \cup {<<one, ten>>, <<one, five>>, <<five, ten>>}

StructuredStrings ==
    {Rep("M", a) \o h \o t \o o :
        a \in 0..MaxThousands,
        h \in GroupCandidates("C", "D", "M"),
        t \in GroupCandidates("X", "L", "C"),
        o \in GroupCandidates("I", "V", "X")}

IntInputs == (0 - Below)..(5000 + Above)

\* Nothing, or one more character, after a structured string.
Tails == {<<>>} \cup {<<c>> : c \in Alphabet}

FreeStrings == StringsUpTo(Alphabet, MaxFreeLen)

NumeralInputs == StringsUpTo(NumeralChars, MaxFreeLen) \cup StructuredStrings

----------------------------------------------------------------------------
(* _romanNumeralMap *)

\* The table with D before CM: no longer descending by value.
romanNumeralMapMisordered ==
    << [numeral |-> <<"M">>,      integer |-> 1000],
       [numeral |-> <<"D">>,      integer |-> 500],
       [numeral |-> <<"C", "M">>, integer |-> 900],
       [numeral |-> <<"C", "D">>, integer |-> 400],
       [numeral |-> <<"C">>,      integer |-> 100],
       [numeral |-> <<"X", "C">>, integer |-> 90],
       [numeral |-> <<"L">>,      integer |-> 50],
       [numeral |-> <<"X", "L">>, integer |-> 40],
       [numeral |-> <<"X">>,      integer |-> 10],
       [numeral |-> <<"I", "X">>, integer |-> 9],
       [numeral |-> <<"V">>,      integer |-> 5],
       [numeral |-> <<"I", "V">>, integer |-> 4],
       [numeral |-> <<"I">>,      integer |-> 1] >>

\* The table without the subtractive pairs CM, CD, XC, XL, IX, IV.
romanNumeralMapAdditive ==
    << [numeral |-> <<"M">>, integer |-> 1000],
       [numeral |-> <<"D">>, integer |-> 500],
       [numeral |-> <<"C">>, integer |-> 100],
       [numeral |-> <<"L">>, integer |-> 50],
       [numeral |-> <<"X">>, integer |-> 10],
       [numeral |-> <<"V">>, integer |-> 5],
       [numeral |-> <<"I">>, integer |-> 1] >>

romanNumeralMap ==
    << [numeral |-> <<"M">>,      integer |-> 1000],
       [numeral |-> <<"C", "M">>, integer |-> 900],
       [numeral |-> <<"D">>,      integer |-> 500],
       [numeral |-> <<"C", "D">>, integer |-> 400],
       [numeral |-> <<"C">>,      integer |-> 100],
       [numeral |-> <<"X", "C">>, integer |-> 90],
       [numeral |-> <<"L">>,      integer |-> 50],
       [numeral |-> <<"X", "L">>, integer |-> 40],
       [numeral |-> <<"X">>,      integer |-> 10],
       [numeral |-> <<"I", "X">>, integer |-> 9],
       [numeral |-> <<"V">>,      integer |-> 5],
       [numeral |-> <<"I", "V">>, integer |-> 4],
       [numeral |-> <<"I">>,      integer |-> 1] >>

----------------------------------------------------------------------------
(* _romanNumeralPattern, as re matches it: each operator maps the set of   *)
(* positions a match may have reached to the set it may reach next, which  *)
(* is what backtracking explores.  re.VERBOSE drops the blanks and the     *)
(* comments of the pattern.                                                *)

\* The literal w.
Lit(str, P, w) == {p + Len(w) : p \in {q \in P : Slice(str, q, q + Len(w)) = w}}

\* c{0,max}
RECURSIVE UpTo(_, _, _, _)
UpTo(str, P, c, max) ==
    IF max = 0 THEN P ELSE P \cup UpTo(str, Lit(str, P, <<c>>), c, max - 1)

\* c?
Opt(str, P, c) == P \cup Lit(str, P, <<c>>)

\* (one ten | one five | five? one{0,3})
DigitGroup(str, P, one, five, ten) ==
    Lit(str, P, <<one, ten>>)
        \cup Lit(str, P, <<one, five>>)
        \cup UpTo(str, Opt(str, P, five), one, 3)

\* ^ without re.MULTILINE: the start of the string only.
Caret(str, P) == {p \in P : p = 0}

\* $ without re.MULTILINE: the end of the string, and also just before a
\* newline that is the last character of the string.
Dollar(str, P) ==
    {p \in P : \/ p = Len(str)
               \/ p = Len(str) - 1 /\ str[Len(str)] = "\n"}

\* M{0,3}: the pattern of numerals up to 3999.
ThousandsUpTo3(str, P) == UpTo(str, P, "M", 3)

\* M{0,4}
Thousands(str, P) == UpTo(str, P, "M", 4)

\* _romanNumeralPattern.search(str) is not None; search tries every start.
romanNumeralPattern(str) ==
    LET start    == Caret(str, 0..Len(str))
        thousand == Thousands(str, start)
        hundreds == DigitGroup(str, thousand, "C", "D", "M")
        tens     == DigitGroup(str, hundreds, "X", "L", "C")
        ones     == DigitGroup(str, tens, "I", "V", "X")
    IN  Dollar(str, ones) # {}

----------------------------------------------------------------------------
(* toRoman *)

\* 0 < n <= 5000: the upper limit taken as inclusive.
toRomanInRangeInclusive(x) == 0 < x /\ x <= 5000

\* line 108: 0 < n < 5000
toRomanInRange(x) == 0 < x /\ x < 5000

\* while n > integer: the comparison taken as strict.
toRomanWhileStrict(x, integer) == x > integer

\* line 113: while n >= integer
toRomanWhile(x, integer) == x >= integer

toRomanEnter ==
    /\ tr_pc = "call"
    /\ IF ~toRomanInRange(n)
         THEN /\ tr_pc' = "raised"
              /\ exc' = "OutOfRangeError"
              /\ UNCHANGED <<tr_result, tr_k>>
         ELSE /\ tr_pc' = "for"
              /\ tr_result' = <<>>
              /\ tr_k' = 1
              /\ UNCHANGED exc
    /\ UNCHANGED <<tr_arg, n, tr_log>>
    /\ UNCHANGED frVars

\* One pass of the while loop's body.
toRomanAppend ==
    /\ tr_pc = "for"
    /\ tr_k <= Len(romanNumeralMap)
    /\ toRomanWhile(n, romanNumeralMap[tr_k].integer)
    /\ tr_result' = tr_result \o romanNumeralMap[tr_k].numeral
    /\ n' = n - romanNumeralMap[tr_k].integer
    /\ tr_log' = Append(tr_log, tr_k)
    /\ UNCHANGED <<tr_pc, tr_arg, tr_k, exc>>
    /\ UNCHANGED frVars

\* The while condition fails: the for loop takes the next pair.
toRomanNext ==
    /\ tr_pc = "for"
    /\ tr_k <= Len(romanNumeralMap)
    /\ ~toRomanWhile(n, romanNumeralMap[tr_k].integer)
    /\ tr_k' = tr_k + 1
    /\ UNCHANGED <<tr_pc, tr_arg, n, tr_result, tr_log, exc>>
    /\ UNCHANGED frVars

toRomanReturn ==
    /\ tr_pc = "for"
    /\ tr_k > Len(romanNumeralMap)
    /\ tr_pc' = "returned"
    /\ UNCHANGED <<tr_arg, n, tr_result, tr_k, tr_log, exc>>
    /\ UNCHANGED frVars

----------------------------------------------------------------------------
(* fromRoman *)

\* s[index] == numeral[0]: only the first character of the numeral compared.
fromRomanWhileFirstChar(str, i, numeral) == i < Len(str) /\ str[i + 1] = numeral[1]

\* line 161: s[index:index+len(numeral)] == numeral
fromRomanWhile(str, i, numeral) == Slice(str, i, i + Len(numeral)) = numeral

fromRomanEnter ==
    /\ fr_pc = "call"
    /\ IF ~romanNumeralPattern(s)
         THEN /\ fr_pc' = "raised"
              /\ exc' = "InvalidRomanNumeralError"
              /\ UNCHANGED <<fr_result, index, fr_k>>
         ELSE /\ fr_pc' = "for"
              /\ fr_result' = 0
              /\ index' = 0
              /\ fr_k' = 1
              /\ UNCHANGED exc
    /\ UNCHANGED s
    /\ UNCHANGED trVars

\* One pass of the while loop's body.
fromRomanAdd ==
    /\ fr_pc = "for"
    /\ fr_k <= Len(romanNumeralMap)
    /\ fromRomanWhile(s, index, romanNumeralMap[fr_k].numeral)
    /\ fr_result' = fr_result + romanNumeralMap[fr_k].integer
    /\ index' = index + Len(romanNumeralMap[fr_k].numeral)
    /\ UNCHANGED <<fr_pc, s, fr_k, exc>>
    /\ UNCHANGED trVars

\* The while condition fails: the for loop takes the next pair.
fromRomanNext ==
    /\ fr_pc = "for"
    /\ fr_k <= Len(romanNumeralMap)
    /\ ~fromRomanWhile(s, index, romanNumeralMap[fr_k].numeral)
    /\ fr_k' = fr_k + 1
    /\ UNCHANGED <<fr_pc, s, fr_result, index, exc>>
    /\ UNCHANGED trVars

fromRomanReturn ==
    /\ fr_pc = "for"
    /\ fr_k > Len(romanNumeralMap)
    /\ fr_pc' = "returned"
    /\ UNCHANGED <<s, fr_result, index, fr_k, exc>>
    /\ UNCHANGED trVars

\* fromRoman's walk as a function of its argument: the value returned for a
\* string that passed the pattern.
RECURSIVE fromRomanWalk(_, _, _, _)
fromRomanWalk(str, k, i, result) ==
    IF k > Len(romanNumeralMap) THEN result
    ELSE IF fromRomanWhile(str, i, romanNumeralMap[k].numeral)
         THEN fromRomanWalk(str, k, i + Len(romanNumeralMap[k].numeral),
                            result + romanNumeralMap[k].integer)
         ELSE fromRomanWalk(str, k + 1, i, result)

----------------------------------------------------------------------------
(* Callers *)

\* fromRoman(toRoman(x)): the numeral returned is passed on.
decodeReturned ==
    /\ tr_pc = "returned"
    /\ fr_pc = "idle"
    /\ fr_pc' = "call"
    /\ s' = tr_result
    /\ UNCHANGED <<fr_result, index, fr_k, exc>>
    /\ UNCHANGED trVars

\* toRoman(fromRoman(x)): the integer returned is passed on.
encodeReturned ==
    /\ fr_pc = "returned"
    /\ tr_pc = "idle"
    /\ tr_pc' = "call"
    /\ n' = fr_result
    /\ tr_arg' = fr_result
    /\ UNCHANGED <<tr_result, tr_k, tr_log, exc>>
    /\ UNCHANGED frVars

toRomanCalled(x) ==
    /\ tr_pc = "call" /\ tr_arg = x /\ n = x
    /\ tr_result = <<>> /\ tr_k = 0 /\ tr_log = <<>>

toRomanIdle ==
    /\ tr_pc = "idle" /\ tr_arg = 0 /\ n = 0
    /\ tr_result = <<>> /\ tr_k = 0 /\ tr_log = <<>>

fromRomanCalled(str) ==
    /\ fr_pc = "call" /\ s = str
    /\ fr_result = 0 /\ index = 0 /\ fr_k = 0

fromRomanIdle ==
    /\ fr_pc = "idle" /\ s = <<>>
    /\ fr_result = 0 /\ index = 0 /\ fr_k = 0

\* toRoman(x) for every integer x of IntInputs.
InitEnc == /\ \E x \in IntInputs : toRomanCalled(x)
           /\ fromRomanIdle
           /\ exc = "none"
NextEnc == toRomanEnter \/ toRomanAppend \/ toRomanNext \/ toRomanReturn
SpecEnc == InitEnc /\ [][NextEnc]_vars

\* fromRoman(str) for every free string and every structured string with a tail.
InitDec == /\ \/ \E str \in FreeStrings : fromRomanCalled(str)
              \/ \E w \in StructuredStrings, tail \in Tails : fromRomanCalled(w \o tail)
           /\ toRomanIdle
           /\ exc = "none"
NextDec == fromRomanEnter \/ fromRomanAdd \/ fromRomanNext \/ fromRomanReturn
SpecDec == InitDec /\ [][NextDec]_vars

\* fromRoman(toRoman(x)) for every integer x of IntInputs.
NextRoundTrip ==
    \/ toRomanEnter \/ toRomanAppend \/ toRomanNext \/ toRomanReturn
    \/ decodeReturned
    \/ fromRomanEnter \/ fromRomanAdd \/ fromRomanNext \/ fromRomanReturn
SpecRoundTrip == InitEnc /\ [][NextRoundTrip]_vars

\* toRoman(fromRoman(str)) for every string str of NumeralInputs.
InitReverse == /\ \E str \in NumeralInputs : fromRomanCalled(str)
               /\ toRomanIdle
               /\ exc = "none"
NextReverse ==
    \/ fromRomanEnter \/ fromRomanAdd \/ fromRomanNext \/ fromRomanReturn
    \/ encodeReturned
    \/ toRomanEnter \/ toRomanAppend \/ toRomanNext \/ toRomanReturn
SpecReverse == InitReverse /\ [][NextReverse]_vars

----------------------------------------------------------------------------
(* What the claims speak of *)

\* The ten forms of one decimal digit, 0 to 9, written with the position's
\* unit, five and ten symbols.
DigitForms(one, five, ten) ==
    << <<>>, <<one>>, <<one, one>>, <<one, one, one>>, <<one, five>>,
       <<five>>, <<five, one>>, <<five, one, one>>, <<five, one, one, one>>,
       <<one, ten>> >>

\* The positional standard numeral of x >= 0 (the empty string for 0).
Positional(x) ==
    Rep("M", x \div 1000)
        \o DigitForms("C", "D", "M")[((x \div 100) % 10) + 1]
        \o DigitForms("X", "L", "C")[((x \div 10) % 10) + 1]
        \o DigitForms("I", "V", "X")[(x % 10) + 1]

\* The words of (one ten | one five | five? one{0,3}).
GroupWords(one, five, ten) ==
    {<<one, ten>>, <<one, five>>}
        \cup {f \o Rep(one, r) : f \in {<<>>, <<five>>}, r \in 0..3}

\* The words of M{0,4}(CM|CD|D?C{0,3})(XC|XL|L?X{0,3})(IX|IV|V?I{0,3}).
GrammarWords ==
    {Rep("M", a) \o h \o t \o o :
        a \in 0..4,
        h \in GroupWords("C", "D", "M"),
        t \in GroupWords("X", "L", "C"),
        o \in GroupWords("I", "V", "X")}

\* str without the newline it may end with.
StripNewline(str) ==
    IF str # <<>> /\ str[Len(str)] = "\n" THEN SubSeq(str, 1, Len(str) - 1) ELSE str

\* The strings one character longer or shorter than str at its end.
Rivals(str) ==
    {Append(str, c) : c \in Alphabet}
        \cup (IF str = <<>> THEN {} ELSE {SubSeq(str, 1, Len(str) - 1)})

\* The sum of the table values, and the text, of the numerals logged.
RECURSIVE LogSum(_)
LogSum(log) ==
    IF log = <<>> THEN 0 ELSE romanNumeralMap[Head(log)].integer + LogSum(Tail(log))

RECURSIVE LogText(_)
LogText(log) ==
    IF log = <<>> THEN <<>> ELSE romanNumeralMap[Head(log)].numeral \o LogText(Tail(log))

----------------------------------------------------------------------------
(* C1 *)

\* C1: for every n in 1..4999, toRoman(n) returns a string and
\* fromRoman(toRoman(n)) returns n; neither call raises, and until fromRoman
\* has returned one of the two calls is still running or about to be made.
RoundTrip ==
    tr_arg \in 1..4999 =>
        /\ exc = "none"
        /\ tr_pc # "raised" /\ fr_pc # "raised"
        /\ tr_pc = "returned" => tr_result \in Seq(NumeralChars)
        /\ fr_pc = "returned" => fr_result = tr_arg
        /\ fr_pc # "returned" =>
               \/ tr_pc \in {"call", "for"}
               \/ tr_pc = "returned" /\ fr_pc \in {"idle", "call", "for"}

RoundTripWitness ==
    /\ tr_arg = 4999 /\ tr_pc = "returned"
    /\ fr_pc = "returned" /\ fr_result = 4999

----------------------------------------------------------------------------
(* C2 *)

\* C2: toRoman(n) raises OutOfRangeError if and only if n is outside 1..4999;
\* when it raises, the walk has not begun: no numeral was built and n is
\* the argument as passed, not a clamped value.
RangeRejection ==
    tr_pc # "call" =>
        /\ (tr_pc = "raised") <=> (tr_arg \notin 1..4999)
        /\ (exc = "OutOfRangeError") <=> (tr_pc = "raised")
        /\ tr_pc = "raised" =>
               /\ tr_result = <<>> /\ tr_log = <<>> /\ tr_k = 0
               /\ n = tr_arg

RangeRejectionWitness ==
    /\ tr_arg = 5000
    /\ tr_pc = "raised"
    /\ exc = "OutOfRangeError"

----------------------------------------------------------------------------
(* C5 *)

\* C5: for every n in 1..4999 toRoman(n) returns the positional standard
\* numeral of n; toRoman(5) = V, toRoman(4) = IV, toRoman(1994) = MCMXCIV and
\* toRoman(2525) = MMDXXV.
PositionalNumeral ==
    tr_pc = "returned" =>
        /\ tr_result = Positional(tr_arg)
        /\ tr_arg = 5 => tr_result = <<"V">>
        /\ tr_arg = 4 => tr_result = <<"I", "V">>
        /\ tr_arg = 1994 => tr_result = <<"M", "C", "M", "X", "C", "I", "V">>
        /\ tr_arg = 2525 => tr_result = <<"M", "M", "D", "X", "X", "V">>

PositionalNumeralWitness ==
    /\ tr_pc = "returned"
    /\ tr_arg = 1994
    /\ tr_result = <<"M", "C", "M", "X", "C", "I", "V">>

----------------------------------------------------------------------------
(* C7 *)

\* C7 as written: the string toRoman returns has at most 15 characters.
NumeralLength15 == tr_pc = "returned" => Len(tr_result) <= 15

\* C7, amended: the string toRoman returns, and every prefix of it built on
\* the way, has at most 16 characters.
NumeralLength16 == Len(tr_result) <= 16

NumeralLength16Witness ==
    /\ tr_pc = "returned"
    /\ tr_arg = 4888
    /\ Len(tr_result) = 16

----------------------------------------------------------------------------
(* C8 *)

\* C8: at every step of toRoman's walk the table values of the numerals
\* appended so far plus the remainder n make the argument, the numerals
\* appended are the result, n is not negative, and n is 0 once the walk has
\* passed all 13 pairs of the table.
WalkAccounting ==
    tr_pc \in {"for", "returned"} =>
        /\ LogSum(tr_log) + n = tr_arg
        /\ LogText(tr_log) = tr_result
        /\ n >= 0
        /\ tr_k > 13 => n = 0
        /\ tr_pc = "returned" => tr_k = 14

WalkAccountingWitness ==
    /\ tr_pc = "returned"
    /\ tr_arg = 4999
    /\ tr_k = 14
    /\ n = 0
    /\ LogSum(tr_log) = 4999

----------------------------------------------------------------------------
(* C3 *)

\* C3: fromRoman(s) raises InvalidRomanNumeralError whenever the whole of s
\* is not a word of the grammar; a numeral followed by one more character is
\* not decoded.
RejectsNonWords ==
    (fr_pc # "call" /\ s \notin GrammarWords) =>
        /\ fr_pc = "raised"
        /\ exc = "InvalidRomanNumeralError"

----------------------------------------------------------------------------
(* C4 *)

\* C4: fromRoman raises InvalidRomanNumeralError, and returns no integer, for
\* "IIII", "VX", "", "ABC" and "mmi".
RejectsExamples ==
    (/\ fr_pc # "call"
     /\ s \in {<<"I", "I", "I", "I">>, <<"V", "X">>, <<>>,
               <<"A", "B", "C">>, <<"m", "m", "i">>}) =>
        /\ fr_pc = "raised"
        /\ exc = "InvalidRomanNumeralError"

----------------------------------------------------------------------------
(* C6 *)

----------------------------------------------------------------------------
(* C9 *)

\* C9: the cursor never moves past the end of s, and when the walk over the
\* 13 pairs ends for a string that passed the pattern, index = len(s).
CursorReachesEnd ==
    /\ fr_pc \in {"for", "returned"} => index <= Len(s)
    /\ fr_pc = "returned" => index = Len(s)

----------------------------------------------------------------------------
(* C10 *)

\* C10: for every string s over M, D, C, L, X, V, I that fromRoman accepts,
\* toRoman(fromRoman(s)) does not raise and returns s.
ReverseRoundTrip ==
    fr_pc = "returned" =>
        /\ exc = "none"
        /\ tr_pc # "raised"
        /\ tr_pc = "returned" => tr_result = s

====
